---- MODULE Spec2Model ----
(***************************************************************************)
(* Model of src/d3d12translationlayer/Query.cpp: the Async readiness gate  *)
(* (End / GetData / FlushAndPrep) and the timestamp Query with its         *)
(* rotating instances (Suspend / EndInternal / AdvanceInstance /           *)
(* GetDataInternal).                                                       *)
(*                                                                         *)
(* The owning ImmediateContext is not part of Query.cpp; its epoch         *)
(* counters, submission and wait-for-completion are modelled from the      *)
(* interface the specification gives for them (section 6).  The GPU is an  *)
(* independent timeline: it executes submitted batches in order, and a     *)
(* resolve command writes its value into the result buffer only when its   *)
(* batch is executed.                                                      *)
(***************************************************************************)
EXTENDS Integers, Sequences, FiniteSets, TLC

\* ---------------------------------------------------------------- bounds
MaxInstances == 3      \* m_InstancesPerQuery ranges over 1..MaxInstances
MaxOps       == 3      \* at most this many End/Suspend/AdvanceInstance calls in a run
MaxEpoch     == 2      \* the command list ID never exceeds this

\* ------------------------------------------------------- program constants
SizeofUINT64 == 8
FirstCommandListID == 1
m_Type == "e_QUERY_TIMESTAMP"

\* ------------------------------------------------------------ input sets
StaleValues == {0, 64}         \* contents of readback memory never written
DestValues  == {0, 100}        \* contents of the caller's destination
DataSizes   == {0, 4, 8}       \* DataSize arguments tried

VARIABLES
    m_InstancesPerQuery,      \* Query: instance capacity (constant per run)
    m_CurrentInstance,        \* Query: number of instances GetData accumulates
    m_EndedCommandListID,     \* Async: epoch of the last End
    m_LastUsedCommandListID,  \* Query: epoch of the last Suspend
    resultBuffer,             \* readback region: slot -> UINT64
    mapped,                   \* is the readback region mapped by the CPU
    commandListID,            \* context: ID of the batch being recorded
    completedFence,           \* context: last batch the GPU has finished
    cmdList,                  \* context: resolves recorded in the open batch
    submitted,                \* context: submitted batches the GPU still owes
    waitReturned,             \* a caller's wait-for-idle was the context's last step
    alive,                    \* FALSE once the process has been terminated
    numOps,                   \* End/Suspend/AdvanceInstance calls made so far
    rec,                      \* history of the instances recorded (ghost)
    last                      \* what the last operation did (ghost)

vars == << m_InstancesPerQuery, m_CurrentInstance, m_EndedCommandListID,
           m_LastUsedCommandListID, resultBuffer, mapped, commandListID,
           completedFence, cmdList, submitted, waitReturned, alive, numOps,
           rec, last >>

queryVars == << m_CurrentInstance, m_EndedCommandListID, m_LastUsedCommandListID >>
ctxVars   == << commandListID, completedFence, cmdList, submitted, waitReturned >>

\* ------------------------------------------------------------- GPU side
\* A resolve command writes its value at Index * DataSize12 in the region.
RECURSIVE ExecCmds(_, _)
ExecCmds(buf, cmds) ==
    IF cmds = << >> THEN buf
    ELSE ExecCmds([buf EXCEPT ![Head(cmds).slot] = Head(cmds).val], Tail(cmds))

\* The GPU executes batches in submission order.
RECURSIVE ExecBatches(_, _)
ExecBatches(buf, batches) ==
    IF batches = << >> THEN buf
    ELSE ExecBatches(ExecCmds(buf, Head(batches)), Tail(batches))

FirstN(s, n) == SubSeq(s, 1, n)
DropN(s, n)  == SubSeq(s, n + 1, Len(s))

\* ------------------------------------------------- context (collaborator)
GetCommandListID == commandListID
GetCompletedFenceValue == completedFence
\* After a Suspend the open batch holds commands, so the batch "with
\* commands" is the one being recorded.
GetCommandListIDWithCommands == commandListID

\* The context as a value, so that a handler can thread it through its calls.
Ctx == [ id |-> commandListID, fence |-> completedFence,
         cmds |-> cmdList, subm |-> submitted, buf |-> resultBuffer ]

\* submitPendingWork: the open batch is handed to the GPU, a new one opens.
SubmitCommandList(c) ==
    [c EXCEPT !.subm = Append(c.subm, c.cmds), !.cmds = << >>, !.id = c.id + 1]

\* The GPU finishes the next k submitted batches.
GpuRun(c, k) ==
    [c EXCEPT !.buf = ExecBatches(c.buf, FirstN(c.subm, k)),
              !.subm = DropN(c.subm, k),
              !.fence = c.fence + k]

\* waitForAllWorkComplete: block until all work submitted so far is done.
WaitForCompletion(c) == GpuRun(c, Len(c.subm))

\* ------------------------------------------------------------ ghost state
\* last: the call the caller has just made and not yet looked at: the
\* operation, its arguments, what it returned, the caller's destination (one
\* UINT64) before and after it, and which calls it made on the context and
\* on the readback region: range is the end of the read range it declared
\* when mapping, read the end of the bytes it then read, both in bytes from
\* the start of the region.  op = "none" between calls.
NoOp == [ op |-> "none", ret |-> "void", async |-> FALSE,
          doNotFlush |-> FALSE, hasBuf |-> FALSE, size |-> 0,
          destBefore |-> 0, dest |-> 0,
          submitTried |-> FALSE, submitFailed |-> FALSE, waited |-> FALSE,
          maps |-> 0, exhausted |-> FALSE, afterWait |-> FALSE,
          range |-> 0, read |-> 0 ]

Idle == last.op = "none"

\* rec: the instances recorded since Initialize or the last End, as long as
\* every Suspend was followed by an AdvanceInstance before the next Suspend
\* (clean): how many (n), the sum of the values the GPU resolves for them
\* (sum), whether the last one still waits for its AdvanceInstance (open),
\* and whether a fold has happened (folded).
RecInit == [ n |-> 0, sum |-> 0, open |-> FALSE, clean |-> TRUE, folded |-> FALSE ]
Dirty   == [ n |-> 0, sum |-> 0, open |-> FALSE, clean |-> FALSE, folded |-> FALSE ]

\* ------------------------------------------------------------------ Init
\* Async::Async, Query::Initialize; the context starts with its first batch
\* open and nothing completed.
Init ==
    /\ m_InstancesPerQuery \in 1..MaxInstances
    /\ m_CurrentInstance = 0
    /\ m_EndedCommandListID = 0
    /\ m_LastUsedCommandListID = 0
    /\ \E s \in StaleValues :
           resultBuffer = [i \in 0..(m_InstancesPerQuery - 1) |-> s]
    /\ mapped = FALSE
    /\ commandListID = FirstCommandListID
    /\ completedFence = FirstCommandListID - 1
    /\ cmdList = << >>
    /\ submitted = << >>
    /\ waitReturned = FALSE
    /\ alive = TRUE
    /\ numOps = 0
    /\ rec = RecInit
    /\ last = NoOp

\* ------------------------------------------------------- Async::FlushAndPrep
\* m_EndedCommandListID == m_pParent->GetCommandListID()
GateNeedsSubmitUpTo(ended, c) == ended <= c.id
GateNeedsSubmit(ended, c) == ended = c.id
FenceReachedOffByOne(fence, ended) == ~(fence + 1 < ended)
FenceReachedExactly(fence, ended) == fence = ended
FenceReachedStrictly(fence, ended) == fence > ended
FenceReached(fence, ended) == ~(fence < ended)
\* what the gate returns from its catch clauses
OnSubmitFailureReady == TRUE
OnSubmitFailure == FALSE

\* The readiness gate.  submitOk says whether SubmitCommandList succeeds; k is
\* how many batches the GPU finishes between the forced submission and the
\* read of the completed fence value.
FlushAndPrep(c, ended, DoNotFlush, submitOk, k) ==
    IF GateNeedsSubmit(ended, c)
    THEN IF DoNotFlush
         THEN [ret |-> FALSE, ctx |-> c, tried |-> FALSE, failed |-> FALSE]
         ELSE IF ~submitOk
              THEN [ret |-> OnSubmitFailure, ctx |-> c, tried |-> TRUE, failed |-> TRUE]
              ELSE LET c2 == GpuRun(SubmitCommandList(c), k)
                   IN  [ret |-> FenceReached(c2.fence, ended), ctx |-> c2,
                        tried |-> TRUE, failed |-> FALSE]
    ELSE [ret |-> FenceReached(c.fence, ended), ctx |-> c,
          tried |-> FALSE, failed |-> FALSE]

\* ------------------------------------------------- Query::GetDataInternal
GetDataSize12 == SizeofUINT64
QueryIndex(Instance) == Instance

SizeOkHalf(DataSize) == ~(DataSize < SizeofUINT64 \div 2)
SizeOk(DataSize) == ~(DataSize < SizeofUINT64)

\* Sums of at most MaxSuspends small values stay far below 2^64, so the
\* UINT64 additions never wrap within the bounds.
AccumulateLastOnly(buf, n) == IF n = 0 THEN 0 ELSE buf[n - 1]
RECURSIVE Accumulate(_, _)
Accumulate(buf, n) ==
    IF n = 0 THEN 0 ELSE Accumulate(buf, n - 1) + buf[n - 1]

\* *pDest = 0 for the timestamp kind
InitDestKeep(d0) == d0
InitDest(d0) == 0

TimestampResult(Timestamp, d) == IF Timestamp > d THEN Timestamp ELSE d

MapRegion(ok) == ok
UnmapSkipped(m) == m
UnmapRegion(m) == FALSE

\* CD3DX12_RANGE ReadRange(0, DataSize)
ReadRangeEnd(DataSize) == DataSize
\* the accumulation loop reads NumCounters values for each of cur instances
BytesRead(cur) == cur * GetDataSize12

\* outcome: "ok", or the failure thrown; dest: the destination afterwards;
\* maps: Map calls made; mapped: whether the region is left mapped; range:
\* end of the read range declared; read: end of the bytes read.
GetDataInternal(buf, cur, d0, DataSize, mapOk) ==
    IF m_Type = "e_QUERY_TIMESTAMP" /\ ~SizeOk(DataSize)
    THEN [outcome |-> "E_INVALIDARG", dest |-> d0, maps |-> 0, mapped |-> FALSE,
          range |-> 0, read |-> 0]
    ELSE LET d1 == IF m_Type = "e_QUERY_TIMESTAMP" THEN InitDest(d0) ELSE d0
             m  == MapRegion(mapOk)
         IN  IF ~m
             THEN [outcome |-> "MapFailed", dest |-> d1, maps |-> 1,
                   mapped |-> FALSE, range |-> ReadRangeEnd(DataSize),
                   read |-> 0]
             ELSE [outcome |-> "ok",
                   dest |-> TimestampResult(Accumulate(buf, cur), d1),
                   maps |-> 1, mapped |-> UnmapRegion(m),
                   range |-> ReadRangeEnd(DataSize), read |-> BytesRead(cur)]

\* --------------------------------------------------------- Async::GetData
\* if (!AsyncGetData && !FlushAndPrep(DoNotFlush)): an async call does not
\* evaluate the gate.
SkipsGateNever(AsyncGetData) == FALSE
SkipsGate(AsyncGetData) == AsyncGetData

\* GetDataInternal is noexcept: a failure thrown inside it terminates the
\* process.  d0 is what the caller's destination holds on entry.
GetData(pDataNull, DataSize, DoNotFlush, AsyncGetData, d0, submitOk, k, mapOk) ==
    /\ alive /\ Idle
    /\ IF ~AsyncGetData /\ m_EndedCommandListID = commandListID /\ ~DoNotFlush
       THEN IF submitOk THEN k <= Len(submitted) + 1 ELSE k = 0
       ELSE submitOk /\ k = 0
    /\ LET gate == IF SkipsGate(AsyncGetData)
                   THEN [ret |-> TRUE, ctx |-> Ctx, tried |-> FALSE, failed |-> FALSE]
                   ELSE FlushAndPrep(Ctx, m_EndedCommandListID, DoNotFlush, submitOk, k)
           c    == gate.ctx
           call == gate.ret /\ ~pDataNull /\ DataSize # 0
           r    == IF call
                   THEN GetDataInternal(c.buf, m_CurrentInstance, d0, DataSize, mapOk)
                   ELSE [outcome |-> "skip", dest |-> d0, maps |-> 0,
                         mapped |-> mapped, range |-> 0, read |-> 0]
           thrown == r.outcome \in {"E_INVALIDARG", "MapFailed"}
       IN  /\ c.id <= MaxEpoch
           /\ mapOk \/ (call /\ SizeOk(DataSize))
           /\ commandListID' = c.id
           /\ completedFence' = c.fence
           /\ cmdList' = c.cmds
           /\ submitted' = c.subm
           /\ waitReturned' = (waitReturned /\ c.id = commandListID)
           /\ resultBuffer' = c.buf
           /\ mapped' = r.mapped
           /\ alive' = ~thrown
           /\ last' = [NoOp EXCEPT
                 !.op = "GetData",
                 !.ret = IF thrown THEN r.outcome
                         ELSE IF gate.ret THEN "ready" ELSE "notready",
                 !.async = AsyncGetData, !.doNotFlush = DoNotFlush,
                 !.hasBuf = (~pDataNull /\ DataSize # 0), !.size = DataSize,
                 !.destBefore = d0, !.dest = r.dest,
                 !.submitTried = gate.tried, !.submitFailed = gate.failed,
                 !.maps = r.maps, !.afterWait = waitReturned,
                 !.range = r.range, !.read = r.read]
    /\ UNCHANGED << m_InstancesPerQuery, queryVars, numOps, rec >>

\* ---------------------------------------------------------- Query::Suspend
\* The commands a Suspend records: EndQuery and ResolveQueryData for the
\* slot of the current instance; v is the value the GPU will resolve.
SuspendCmd(cur, v) == [slot |-> QueryIndex(cur), val |-> v]

\* A failed assert aborts the process.
Abort(opName) ==
    /\ alive' = FALSE
    /\ last' = [NoOp EXCEPT !.op = opName, !.ret = "assert"]
    /\ UNCHANGED << m_InstancesPerQuery, queryVars, ctxVars, resultBuffer,
                    mapped, rec >>

Suspend(v) ==
    /\ alive /\ Idle
    /\ numOps < MaxOps
    /\ IF ~(m_CurrentInstance < m_InstancesPerQuery)
       THEN Abort("Suspend") /\ numOps' = numOps + 1
       ELSE /\ cmdList' = Append(cmdList, SuspendCmd(m_CurrentInstance, v))
            /\ m_LastUsedCommandListID' = GetCommandListID
            /\ numOps' = numOps + 1
            /\ rec' = IF ~rec.clean \/ rec.open THEN Dirty
                      ELSE [rec EXCEPT !.n = @ + 1, !.sum = @ + v, !.open = TRUE]
            /\ last' = [NoOp EXCEPT !.op = "Suspend"]
            /\ UNCHANGED << m_InstancesPerQuery, m_CurrentInstance,
                            m_EndedCommandListID, resultBuffer, mapped,
                            commandListID, completedFence, submitted, alive >>
            /\ waitReturned' = FALSE

\* ------------------------------------------- Async::End, Query::EndInternal
\* EndInternal resets to instance 0, records it (Suspend) and increments;
\* End then stores the ID of the batch holding those commands.
\* m_EndedCommandListID = GetCommandListIDWithCommands(): what End stores
EndedCommandListIDNext(id) == id + 1
EndedCommandListID(id) == id

InstanceAtEndKept(cur) == cur
\* m_CurrentInstance = 0: the reset EndInternal makes before it records
InstanceAtEnd(cur) == 0

End(v) ==
    /\ alive /\ Idle
    /\ numOps < MaxOps
    /\ IF ~(InstanceAtEnd(m_CurrentInstance) < m_InstancesPerQuery)
       THEN Abort("End") /\ numOps' = numOps + 1
       ELSE /\ cmdList' = Append(cmdList,
                              SuspendCmd(InstanceAtEnd(m_CurrentInstance), v))
            /\ m_LastUsedCommandListID' = GetCommandListID
            /\ m_CurrentInstance' = InstanceAtEnd(m_CurrentInstance) + 1
            /\ m_EndedCommandListID' = EndedCommandListID(GetCommandListIDWithCommands)
            /\ numOps' = numOps + 1
            /\ rec' = [RecInit EXCEPT !.n = 1, !.sum = v]
            /\ last' = [NoOp EXCEPT !.op = "End"]
            /\ UNCHANGED << m_InstancesPerQuery, resultBuffer, mapped,
                            commandListID, completedFence, submitted, alive >>
            /\ waitReturned' = FALSE

\* -------------------------------------------------- Query::AdvanceInstance
ExhaustedEarly(cur, cap) == ~((cur + 2) < cap)
Exhausted(cur, cap) == ~((cur + 1) < cap)

\* for Instance in 1..cur: pInstance0[0] += pInstance[0]
FoldInto0ExceptLast(buf, cur) == [buf EXCEPT ![0] = Accumulate(buf, cur)]
RECURSIVE FoldInto0(_, _)
FoldInto0(buf, cur) ==
    IF cur = 0 THEN buf
    ELSE LET b == FoldInto0(buf, cur - 1)
         IN  [b EXCEPT ![0] = b[0] + b[cur]]

InstanceAfterFold == 1
\* CD3DX12_RANGE ReadRange(0, DataSize12 * NumSubQueries * m_InstancesPerQuery)
FoldReadRangeEnd(cap) == GetDataSize12 * 1 * cap

AdvanceInstance(mapOk) ==
    /\ alive /\ Idle
    /\ numOps < MaxOps
    /\ numOps' = numOps + 1
    /\ IF ~(m_CurrentInstance < m_InstancesPerQuery)
       THEN mapOk /\ Abort("AdvanceInstance")
       ELSE IF ~Exhausted(m_CurrentInstance, m_InstancesPerQuery)
       THEN /\ mapOk
            /\ m_CurrentInstance' = m_CurrentInstance + 1
            /\ rec' = IF ~rec.clean \/ ~rec.open THEN Dirty
                      ELSE [rec EXCEPT !.open = FALSE]
            /\ last' = [NoOp EXCEPT !.op = "AdvanceInstance"]
            /\ waitReturned' = FALSE
            /\ UNCHANGED << m_InstancesPerQuery, m_EndedCommandListID,
                            m_LastUsedCommandListID, commandListID,
                            completedFence, cmdList, submitted, resultBuffer,
                            mapped, alive >>
       ELSE LET c == WaitForCompletion(Ctx)
                m == MapRegion(mapOk)
                obs == [NoOp EXCEPT !.op = "AdvanceInstance", !.waited = TRUE,
                                    !.exhausted = TRUE, !.maps = 1,
                                    !.range = FoldReadRangeEnd(m_InstancesPerQuery)]
            IN  /\ commandListID' = c.id
                /\ completedFence' = c.fence
                /\ cmdList' = c.cmds
                /\ submitted' = c.subm
                /\ waitReturned' = FALSE
                /\ IF ~m
                   THEN \* ThrowFailure: the exception leaves the call
                        /\ resultBuffer' = c.buf
                        /\ mapped' = FALSE
                        /\ m_CurrentInstance' = m_CurrentInstance
                        /\ rec' = Dirty
                        /\ alive' = alive
                        /\ last' = [obs EXCEPT !.ret = "MapFailed"]
                   ELSE /\ resultBuffer' = FoldInto0(c.buf, m_CurrentInstance)
                        /\ mapped' = UnmapRegion(m)
                        /\ m_CurrentInstance' = InstanceAfterFold
                        /\ rec' = IF ~rec.clean \/ ~rec.open THEN Dirty
                                  ELSE [rec EXCEPT !.open = FALSE,
                                                   !.folded = TRUE]
                        /\ alive' = (InstanceAfterFold < m_InstancesPerQuery)
                        /\ last' = [obs EXCEPT
                              !.read = BytesRead(m_CurrentInstance + 1),
                              !.ret = IF InstanceAfterFold < m_InstancesPerQuery
                                      THEN "void" ELSE "assert"]
                /\ UNCHANGED << m_InstancesPerQuery, m_EndedCommandListID,
                                m_LastUsedCommandListID >>

\* ------------------------------------------------ the context's own steps
\* The context submits the open batch for a reason of its own (other work).
ContextSubmit ==
    /\ alive /\ Idle
    /\ commandListID < MaxEpoch
    /\ LET c == SubmitCommandList(Ctx)
       IN  /\ commandListID' = c.id
           /\ cmdList' = c.cmds
           /\ submitted' = c.subm
    /\ waitReturned' = FALSE
    /\ last' = last
    /\ UNCHANGED << m_InstancesPerQuery, queryVars, resultBuffer, mapped,
                    completedFence, alive, numOps, rec >>

\* The GPU finishes the oldest submitted batch.
GpuComplete ==
    /\ alive /\ Idle
    /\ submitted # << >>
    /\ LET c == GpuRun(Ctx, 1)
       IN  /\ completedFence' = c.fence
           /\ submitted' = c.subm
           /\ resultBuffer' = c.buf
    /\ waitReturned' = FALSE
    /\ last' = last
    /\ UNCHANGED << m_InstancesPerQuery, queryVars, mapped, commandListID,
                    cmdList, alive, numOps, rec >>

\* A caller waits for the context to go idle (waitForAllWorkComplete).
CallerWait ==
    /\ alive /\ Idle
    /\ LET c == WaitForCompletion(Ctx)
       IN  /\ completedFence' = c.fence
           /\ submitted' = c.subm
           /\ resultBuffer' = c.buf
    /\ waitReturned' = TRUE
    /\ last' = last
    /\ UNCHANGED << m_InstancesPerQuery, queryVars, mapped, commandListID,
                    cmdList, alive, numOps, rec >>

\* The caller takes the result of the call it made and is ready for the next.
CallerReturn ==
    /\ alive /\ ~Idle
    /\ last' = NoOp
    /\ UNCHANGED << m_InstancesPerQuery, queryVars, ctxVars, resultBuffer,
                    mapped, alive, numOps, rec >>

\* ------------------------------------------------------------------ Next
\* The value the GPU resolves for the instance a call records: GPU
\* timestamps grow with time, and with powers of two every sum tells which
\* instances are in it.
GpuValues == { 2 ^ numOps }

DoEnd == Idle /\ \E v \in GpuValues : End(v)
DoSuspend == Idle /\ \E v \in GpuValues : Suspend(v)
DoAdvanceInstance == Idle /\ \E mapOk \in BOOLEAN : AdvanceInstance(mapOk)
\* Arguments that the code cannot tell apart are tried once: a null buffer
\* with one size, a destination that is not passed on (null or size 0) with
\* one content, a call that fails before it compares the destination with a
\* nonzero content, and DoNotFlush, which an async call never reads, as TRUE.
DoGetData ==
    /\ alive /\ Idle
    /\ \E pDataNull \in BOOLEAN, DataSize \in DataSizes, d0 \in DestValues :
        /\ pDataNull => DataSize = SizeofUINT64
        /\ (pDataNull \/ DataSize = 0) => d0 = 0
        /\ (~pDataNull /\ DataSize # 0 /\ ~SizeOk(DataSize)) => d0 # 0
        /\ \E DoNotFlush \in BOOLEAN, AsyncGetData \in BOOLEAN,
              submitOk \in BOOLEAN, k \in 0..MaxEpoch, mapOk \in BOOLEAN :
             /\ AsyncGetData => DoNotFlush
             /\ ~mapOk => d0 # 0
             /\ GetData(pDataNull, DataSize, DoNotFlush, AsyncGetData, d0, submitOk,
                   k, mapOk)

Next ==
    \/ DoEnd
    \/ DoSuspend
    \/ DoAdvanceInstance
    \/ DoGetData
    \/ ContextSubmit
    \/ GpuComplete
    \/ CallerWait
    \/ CallerReturn

Spec == Init /\ [][Next]_vars

\* ------------------------------------------------- a caller that polls
\* After End the caller polls: GetData with isAsync = FALSE and DoNotFlush =
\* FALSE, with no buffer or with one of 8 bytes whose mapping succeeds.
\* submitOk: whether a submission the gate forces succeeds.
Poll(submitOk) ==
    /\ alive /\ Idle
    /\ \E pDataNull \in BOOLEAN, d0 \in DestValues, k \in 0..MaxEpoch :
          /\ pDataNull => d0 = 0
          /\ GetData(pDataNull, SizeofUINT64, FALSE, FALSE, d0, submitOk, k, TRUE)
PollSubmitOk == Poll(TRUE)
PollSubmitFails == Poll(FALSE)

\* End, while the command list ID can still grow within MaxEpoch, so that
\* the bound never stands in the way of the submission of End's batch.
EndBeforeLastEpoch == Idle /\ commandListID < MaxEpoch /\ DoEnd

\* The GPU runs beside the caller: it also finishes a batch while a call's
\* result has not been looked at yet.
GpuCompleteDuringCall ==
    /\ alive /\ ~Idle
    /\ submitted # << >>
    /\ LET c == GpuRun(Ctx, 1)
       IN  /\ completedFence' = c.fence
           /\ submitted' = c.subm
           /\ resultBuffer' = c.buf
    /\ waitReturned' = FALSE
    /\ last' = last
    /\ UNCHANGED << m_InstancesPerQuery, queryVars, mapped, commandListID,
                    cmdList, alive, numOps, rec >>
GpuProgress == GpuComplete \/ GpuCompleteDuringCall

LiveNext ==
    \/ EndBeforeLastEpoch
    \/ PollSubmitOk
    \/ PollSubmitFails
    \/ ContextSubmit
    \/ GpuProgress
    \/ CallerReturn

\* The GPU eventually completes what was submitted (weak fairness: once a
\* batch is submitted, completion stays enabled until it happens); the
\* caller eventually looks at each result and keeps polling, and a poll
\* whose submission succeeds eventually happens (strong fairness: a poll is
\* possible each time the previous call has returned, not continuously).
LiveSpec ==
    /\ Init /\ [][LiveNext]_vars
    /\ WF_vars(GpuProgress)
    /\ WF_vars(CallerReturn)
    /\ SF_vars(PollSubmitOk)

\* =================================================================== claims
\* What the claims speak about, read off the state after a call.
Called(opName) == last.op = opName
GotResult == Called("GetData") /\ last.ret = "ready" /\ last.hasBuf
                /\ last.size >= SizeofUINT64
\* The GPU owes nothing: every recorded command was submitted and executed.
Quiescent == cmdList = << >> /\ submitted = << >>
NotSubmitted == m_EndedCommandListID = commandListID
NotCompleted == completedFence < m_EndedCommandListID
\* The sum of the slots GetData accumulates, slot by slot.
RECURSIVE SlotSum(_)
SlotSum(n) == IF n = 0 THEN 0 ELSE resultBuffer[n - 1] + SlotSum(n - 1)
Larger(a, b) == IF a > b THEN a ELSE b

\* C1 (as claimed): a GetData with doNotFlush = TRUE, made while the work of
\* the last End is not submitted or not completed, returns not-ready, leaves
\* the destination as it was and submits nothing, whatever isAsync is.
C1_AnyAsync ==
    [][ (Idle /\ last'.op = "GetData" /\ last'.doNotFlush
            /\ (NotSubmitted \/ NotCompleted))
        => /\ last'.ret = "notready"
           /\ last'.dest = last'.destBefore
           /\ UNCHANGED << commandListID, cmdList, submitted >> ]_vars

\* C1 (amended): the same for a GetData with isAsync = FALSE.
C1_NotReadyNoEffect ==
    [][ (Idle /\ last'.op = "GetData" /\ last'.doNotFlush /\ ~last'.async
            /\ (NotSubmitted \/ NotCompleted))
        => /\ last'.ret = "notready"
           /\ last'.dest = last'.destBefore
           /\ UNCHANGED << commandListID, cmdList, submitted, resultBuffer,
                           mapped, m_CurrentInstance, m_EndedCommandListID >> ]_vars

C1_Witness ==
    /\ Called("GetData") /\ last.doNotFlush /\ ~last.async
    /\ last.hasBuf /\ last.size = SizeofUINT64
    /\ NotSubmitted /\ m_CurrentInstance = 1
    /\ last.ret = "notready" /\ last.destBefore = 100 /\ last.dest = 100

\* C2: a non-async GetData made right after a wait for all submitted work has
\* returned is ready, whatever End/Suspend/AdvanceInstance calls came before
\* the wait (a submission it forces is taken to succeed).
C2_ReadyAfterWait ==
    (Called("GetData") /\ ~last.async /\ last.afterWait /\ ~last.submitFailed)
        => last.ret # "notready"

\* C3 (as claimed): after n instances were recorded by Suspend, the slots
\* moved on by AdvanceInstance, with 1 <= n <= m_InstancesPerQuery and no
\* fold, a GetData made once the GPU has executed everything leaves the sum
\* of the n values the GPU resolved.
C3_SumOfRecorded ==
    (GotResult /\ Quiescent /\ rec.clean /\ ~rec.folded
        /\ 1 <= rec.n /\ rec.n <= m_InstancesPerQuery)
        => last.dest = rec.sum

\* C3 (amended): the same when every one of the n instances was followed by
\* its AdvanceInstance (or was recorded by End), which without a fold means
\* 1 <= n <= m_InstancesPerQuery - 1.
C3_SumOfAdvanced ==
    (GotResult /\ Quiescent /\ rec.clean /\ ~rec.folded /\ ~rec.open
        /\ 1 <= rec.n /\ rec.n <= m_InstancesPerQuery - 1)
        => last.dest = rec.sum

C3_Witness ==
    /\ GotResult /\ Quiescent /\ rec.clean /\ ~rec.folded /\ ~rec.open
    /\ rec.n = 2 /\ m_InstancesPerQuery = 3 /\ m_CurrentInstance = 2
    /\ last.dest = rec.sum /\ rec.sum = 1 + 2

C5_MaxWithDestination ==
    GotResult => last.dest = Larger(SlotSum(m_CurrentInstance), last.destBefore)

\* C5 (amended): the destination is zeroed first, so the value GetData leaves
\* is the accumulated measurement, whatever the destination held before.
C5_AccumulatedOnly ==
    GotResult => last.dest = SlotSum(m_CurrentInstance)

C5_Witness ==
    /\ GotResult /\ last.destBefore = 100 /\ m_CurrentInstance = 2
    /\ Quiescent /\ rec.clean
    /\ last.dest = 1 + 2

\* C6: GetDataInternal called with a size below the 8-byte counter fails
\* with E_INVALIDARG before any effect: destination as it was, region never
\* mapped, m_CurrentInstance unchanged.
C6_SmallSizeRejected ==
    [][ (Idle /\ last'.op = "GetData" /\ last'.hasBuf
            /\ last'.size < SizeofUINT64 /\ last'.ret # "notready")
        => /\ last'.ret = "E_INVALIDARG"
           /\ last'.dest = last'.destBefore
           /\ last'.maps = 0 /\ ~mapped'
           /\ m_CurrentInstance' = m_CurrentInstance ]_vars

C6_Witness ==
    /\ Called("GetData") /\ last.hasBuf /\ last.size = 4
    /\ last.ret = "E_INVALIDARG"
    /\ last.destBefore = 100 /\ last.dest = 100 /\ m_CurrentInstance = 1

\* C7: m_CurrentInstance stays below m_InstancesPerQuery for every capacity
\* from 1 on, and no assert of Suspend, EndInternal or AdvanceInstance fails.
C7_InstanceInRange ==
    /\ 0 <= m_CurrentInstance
    /\ m_CurrentInstance < m_InstancesPerQuery
    /\ last.ret # "assert"

\* C8: only AdvanceInstance waits for the GPU, and only when it is entered
\* with m_CurrentInstance + 1 >= m_InstancesPerQuery; its other branch
\* touches neither the context nor the region; End, Suspend and a GetData
\* that does not submit leave the GPU's progress as it was.
C8_WaitOnlyOnExhaustion ==
    [][ (Idle /\ last'.op # "none")
        => /\ last'.waited =>
                /\ last'.op = "AdvanceInstance"
                /\ m_CurrentInstance + 1 >= m_InstancesPerQuery
           /\ (last'.op = "AdvanceInstance"
                    /\ m_CurrentInstance + 1 < m_InstancesPerQuery) =>
                /\ ~last'.waited /\ last'.maps = 0
                /\ UNCHANGED << commandListID, completedFence, cmdList,
                                submitted, resultBuffer, mapped >>
           /\ last'.op \in {"End", "Suspend"} =>
                UNCHANGED << completedFence, submitted, resultBuffer >>
           /\ (last'.op = "GetData" /\ ~last'.submitTried) =>
                UNCHANGED << completedFence, submitted, resultBuffer >> ]_vars

C8_Witness ==
    /\ Called("AdvanceInstance") /\ last.waited /\ last.ret = "void"
    /\ m_InstancesPerQuery = 3 /\ m_CurrentInstance = 1
    /\ commandListID = 2 /\ completedFence = 1

\* C9: when the submission forced by the gate fails, a non-async GetData
\* returns not-ready as an ordinary result; destination, m_EndedCommandListID,
\* m_CurrentInstance and the context are as before, so a later call can retry.
C9_SubmitFailureIsNotReady ==
    [][ (Idle /\ last'.op = "GetData" /\ last'.submitFailed)
        => /\ last'.ret = "notready" /\ alive'
           /\ last'.dest = last'.destBefore
           /\ UNCHANGED << m_EndedCommandListID, m_CurrentInstance,
                           commandListID, completedFence, cmdList, submitted,
                           resultBuffer, mapped >> ]_vars

C9_Witness ==
    /\ Called("GetData") /\ last.submitFailed /\ ~last.async
    /\ last.ret = "notready" /\ alive
    /\ last.hasBuf /\ last.destBefore = 100 /\ last.dest = 100
    /\ NotSubmitted

\* C10: the region is unmapped whenever a call has ended, on every exit path,
\* and no call maps it more than once.
C10_UnmappedBetweenCalls ==
    /\ ~mapped
    /\ last.maps <= 1

C10_Witness ==
    /\ Called("GetData") /\ last.ret = "ready" /\ last.maps = 1 /\ ~mapped
    /\ m_CurrentInstance >= 1

\* C11: whatever the state before it, an End that returns has recorded one
\* resolve, for slot 0, and left m_CurrentInstance = 1; and a non-async
\* GetData that is ready with no Suspend or AdvanceInstance since that End
\* leaves exactly the value the GPU resolved into slot 0 for it.
OnlyEndSince ==
    /\ m_EndedCommandListID # 0
    /\ rec.clean /\ ~rec.open /\ ~rec.folded /\ rec.n = 1
C11_EndRecordsSlot0 ==
    [][ /\ (Idle /\ last'.op = "End" /\ last'.ret # "assert") =>
              /\ Len(cmdList') = Len(cmdList) + 1
              /\ SubSeq(cmdList', 1, Len(cmdList)) = cmdList
              /\ cmdList'[Len(cmdList')].slot = 0
              /\ cmdList'[Len(cmdList')].val = rec'.sum
              /\ m_CurrentInstance' = 1
              /\ submitted' = submitted /\ resultBuffer' = resultBuffer
        /\ (last'.op = "GetData" /\ last'.ret = "ready" /\ ~last'.async
                /\ last'.hasBuf /\ OnlyEndSince') =>
              /\ last'.dest = rec'.sum
              /\ resultBuffer'[0] = rec'.sum ]_vars

\* The End was the third call, after a Suspend and an AdvanceInstance that
\* had left m_CurrentInstance = 1 and a resolved value in slot 0.
C11_Witness ==
    /\ GotResult /\ ~last.async /\ OnlyEndSince
    /\ m_InstancesPerQuery = 3 /\ numOps = 3
    /\ last.dest = 4 /\ resultBuffer[0] = 4

\* The sum of slots 0..n-1 of a region's contents.
RECURSIVE BufSum(_, _)
BufSum(b, n) == IF n = 0 THEN 0 ELSE b[n - 1] + BufSum(b, n - 1)
\* A call of AdvanceInstance that takes the exhausted branch and returns.
FoldStep ==
    /\ Idle /\ last'.op = "AdvanceInstance" /\ last'.ret = "void"
    /\ m_InstancesPerQuery >= 2
    /\ m_CurrentInstance = m_InstancesPerQuery - 1
SuspendStep == Idle /\ last'.op = "Suspend" /\ last'.ret # "assert"

\* C12 (as claimed): when AdvanceInstance is entered with m_CurrentInstance =
\* m_InstancesPerQuery - 1, on return slot 0 holds the sum of the values
\* that all the slots held on entry, the other slots are as on entry,
\* m_CurrentInstance = 1, and a Suspend records into the slot of
\* m_CurrentInstance, which is slot 1 right after the fold.
C12_FoldOfEntryValues ==
    [][ /\ FoldStep =>
              /\ resultBuffer'[0] = BufSum(resultBuffer, m_InstancesPerQuery)
              /\ \A i \in 1..(m_InstancesPerQuery - 1) :
                     resultBuffer'[i] = resultBuffer[i]
              /\ m_CurrentInstance' = 1
        /\ SuspendStep =>
              cmdList'[Len(cmdList')].slot = m_CurrentInstance ]_vars

\* C12 (amended): the same with the values the slots hold when the wait
\* inside AdvanceInstance returns, that is after the GPU has executed the
\* batches that were submitted and not yet completed on entry.
C12_FoldOfValuesAfterWait ==
    [][ /\ FoldStep =>
              LET b == ExecBatches(resultBuffer, submitted)
              IN  /\ resultBuffer'[0] = BufSum(b, m_InstancesPerQuery)
                  /\ \A i \in 1..(m_InstancesPerQuery - 1) :
                         resultBuffer'[i] = b[i]
                  /\ m_CurrentInstance' = 1
                  /\ submitted' = << >>
        /\ SuspendStep =>
              /\ Len(cmdList') = Len(cmdList) + 1
              /\ cmdList'[Len(cmdList')].slot = m_CurrentInstance ]_vars

\* A fold of two slots the GPU has written.
C12_Witness ==
    /\ Called("AdvanceInstance") /\ last.exhausted /\ last.ret = "void"
    /\ m_InstancesPerQuery = 2 /\ m_CurrentInstance = 1
    /\ resultBuffer[0] = 1 + 2 /\ resultBuffer[1] = 2
    /\ completedFence = 1 /\ Quiescent

\* C13: in every GetDataInternal call that passes the size check and maps
\* the region, the read range declared to Map reaches at least to the end of
\* the bytes the accumulation loop reads, m_CurrentInstance times the
\* 8-byte stride.
C13_ReadRangeCoversLoop ==
    (Called("GetData") /\ last.ret = "ready" /\ last.maps = 1)
        => last.range >= m_CurrentInstance * SizeofUINT64

AsyncStep == Idle /\ last'.op = "GetData" /\ last'.async
NoBufferStep == Idle /\ last'.op = "GetData" /\ ~last'.hasBuf
                    /\ last'.ret # "notready"

\* C14 (as claimed): a GetData with isAsync = TRUE returns ready in every
\* state and for every argument, submits nothing, leaves the command list ID
\* as it was and, given a buffer and a nonzero size, extracts the
\* accumulated value into the destination; a GetData with a null buffer or
\* size 0 that passes the gate returns ready without mapping or writing.
C14_AsyncAlwaysReady ==
    [][ /\ AsyncStep =>
              /\ last'.ret = "ready"
              /\ ~last'.submitTried
              /\ UNCHANGED << commandListID, cmdList, submitted >>
              /\ last'.hasBuf =>
                    (last'.maps = 1 /\ last'.dest = BufSum(resultBuffer, m_CurrentInstance))
        /\ NoBufferStep =>
              /\ last'.ret = "ready" /\ last'.maps = 0 /\ ~mapped'
              /\ last'.dest = last'.destBefore ]_vars

\* C14 (amended): a GetData with isAsync = TRUE never consults the gate: it
\* never returns not-ready, submits nothing and leaves the context as it
\* was; given a buffer of at least 8 bytes whose mapping succeeds it
\* returns ready with the accumulated value in the destination; given a
\* nonzero size below 8 it fails with E_INVALIDARG, and a failed mapping
\* fails the call.  The part about a null buffer or size 0 is as claimed.
C14_AsyncSkipsGate ==
    [][ /\ AsyncStep =>
              /\ last'.ret # "notready"
              /\ ~last'.submitTried
              /\ UNCHANGED << commandListID, completedFence, cmdList,
                              submitted, resultBuffer, m_EndedCommandListID >>
              /\ (last'.hasBuf /\ last'.size < SizeofUINT64) =>
                    last'.ret = "E_INVALIDARG"
              /\ (last'.hasBuf /\ last'.size >= SizeofUINT64) =>
                    /\ last'.maps = 1
                    /\ last'.ret \in {"ready", "MapFailed"}
                    /\ last'.ret = "ready" =>
                          last'.dest = BufSum(resultBuffer, m_CurrentInstance)
        /\ NoBufferStep =>
              /\ last'.ret = "ready" /\ last'.maps = 0 /\ ~mapped'
              /\ last'.dest = last'.destBefore ]_vars

\* An async GetData that the gate would have refused: the End's batch is
\* still open, and the slot it reads was not yet written by the GPU.
C14_Witness ==
    /\ Called("GetData") /\ last.async /\ last.ret = "ready"
    /\ last.hasBuf /\ last.maps = 1
    /\ NotSubmitted /\ m_CurrentInstance = 1 /\ cmdList # << >>
    /\ last.dest = 64

\* C15: m_EndedCommandListID changes only in a call of End, which sets it
\* to the ID of the batch being recorded at that moment, the batch that
\* holds the resolve End has just recorded; Suspend, AdvanceInstance,
\* GetData (with or without a forced submission) and the context's own
\* steps leave it as it was.
C15_EndedSetOnlyByEnd ==
    [][ /\ (m_EndedCommandListID' # m_EndedCommandListID) =>
              (Idle /\ last'.op = "End")
        /\ (Idle /\ last'.op = "End" /\ last'.ret # "assert") =>
              /\ m_EndedCommandListID' = commandListID
              /\ commandListID' = commandListID
              /\ cmdList' # << >>
        /\ (Idle /\ last'.op \in {"Suspend", "AdvanceInstance", "GetData"}) =>
              m_EndedCommandListID' = m_EndedCommandListID ]_vars

\* A second End, made in a later batch than the first one, whose resolve
\* the GPU has executed, has moved the ID on.
C15_Witness ==
    /\ Called("End") /\ last.ret = "void"
    /\ m_EndedCommandListID = 2 /\ commandListID = 2
    /\ completedFence = 1 /\ resultBuffer[0] = 1

\* What C16 says of a query in its initial condition.
FreshQueryReadsZero ==
        /\ m_EndedCommandListID = 0 /\ m_CurrentInstance = 0
        /\ (Called("GetData") /\ ~last.async) =>
              /\ last.ret # "notready"
              /\ ~last.submitTried
              /\ (last.hasBuf /\ last.size >= SizeofUINT64) =>
                    /\ last.ret \in {"ready", "MapFailed"}
                    /\ last.read = 0
                    /\ last.ret = "ready" => last.dest = 0

CmdSlots(cmds) == { cmds[i].slot : i \in DOMAIN cmds }
PendingSlots ==
    CmdSlots(cmdList) \cup UNION { CmdSlots(submitted[j]) : j \in DOMAIN submitted }

\* C17: whenever a non-async GetData on a query that was ended returns
\* ready, every slot it accumulates, 0..m_CurrentInstance-1, was recorded in
\* a batch the GPU has completed: no resolve for such a slot is still
\* pending, also when the slot was recorded by a Suspend after the last End.
C17_AccumulatedSlotsCompleted ==
    (Called("GetData") /\ ~last.async /\ last.ret = "ready"
        /\ m_EndedCommandListID # 0)
        => \A i \in 0..(m_CurrentInstance - 1) : i \notin PendingSlots

\* C18: when the exhausted branch of AdvanceInstance has read the region,
\* the GPU had executed the resolve of every instance it folded (the slots
\* below the end of what it read), also of an instance whose Suspend was
\* recorded into the batch still open: none of those resolves is pending.
C18_FoldReadsResolvedSlots ==
    (Called("AdvanceInstance") /\ last.exhausted /\ last.ret = "void")
        => \A i \in 0..(last.read \div SizeofUINT64 - 1) : i \notin PendingSlots

\* The work of the last End is submitted and completed.
EndedWorkDone ==
    /\ m_EndedCommandListID # commandListID
    /\ completedFence >= m_EndedCommandListID
GateStep == Idle /\ last'.op = "GetData" /\ ~last'.async

\* C20: readiness is stable between Ends.  A non-async GetData returns
\* ready only with the work of the last End submitted and completed; that
\* condition, once true, stays true over every step that is not a call of
\* End (Suspend, AdvanceInstance, GetData, submission, GPU completion, a
\* wait); and while it is true every non-async GetData, with either
\* DoNotFlush, passes the gate and forces no submission.
C20_ReadinessStable ==
    [][ /\ (GateStep /\ last'.ret = "ready") => EndedWorkDone'
        /\ (EndedWorkDone /\ last'.op # "End") => EndedWorkDone'
        /\ (EndedWorkDone /\ GateStep) =>
              /\ last'.ret # "notready"
              /\ (last'.ret = "ready" \/ last'.hasBuf)
              /\ ~last'.submitTried
              /\ UNCHANGED << commandListID, cmdList, submitted,
                              completedFence >> ]_vars

\* A ready GetData with DoNotFlush = FALSE that submitted nothing, after a
\* Suspend and an AdvanceInstance made in a batch later than the End's.
C20_Witness ==
    /\ Called("GetData") /\ ~last.async /\ ~last.doNotFlush
    /\ last.ret = "ready" /\ ~last.submitTried
    /\ m_EndedCommandListID = 1 /\ m_LastUsedCommandListID = 2
    /\ m_CurrentInstance = 2 /\ commandListID = 2 /\ cmdList # << >>

\* C19: after an End, a caller that keeps calling GetData with isAsync =
\* FALSE and DoNotFlush = FALSE eventually gets ready, given that a forced
\* submission eventually succeeds and the GPU eventually completes what was
\* submitted; a poll made while End's batch is still open forces its
\* submission (and, when that succeeds, the batch is closed and a new one
\* opened), and no GetData waits for the GPU.
EndReturned == Called("End") /\ last.ret = "void"
PollReady == Called("GetData") /\ ~last.async /\ ~last.doNotFlush
                /\ last.ret = "ready"
C19_PollingGetsReady ==
    /\ [][ GateStep =>
              /\ ~last'.waited
              /\ (m_EndedCommandListID = commandListID) =>
                    /\ last'.submitTried
                    /\ ~last'.submitFailed =>
                          /\ commandListID' = commandListID + 1
                          /\ cmdList' = << >>
                          /\ m_EndedCommandListID' < commandListID' ]_vars
    /\ EndReturned ~> PollReady

\* The poll that forced the submission of End's batch got ready at once,
\* the GPU having finished the batch before the gate read the fence.
C19_Witness ==
    /\ PollReady /\ last.submitTried /\ ~last.submitFailed
    /\ m_EndedCommandListID = 1 /\ commandListID = 2 /\ completedFence = 1
    /\ last.hasBuf /\ last.dest = 1

====
